---- MODULE Spec2Model ----
(***************************************************************************)
(* Model of the chat relay of zoe12378/chat_DB.                            *)
(*                                                                         *)
(*   src/ch6_chat_jsonDB/app.py    file-backed history  (backend "json")   *)
(*   src/ch6-2_chat_mongoDB/app.py document-store history (backend "mongo")*)
(*                                                                         *)
(* The two programs share the registry handlers (connect, disconnect,      *)
(* join, typing, change_username) line for line; they differ in            *)
(* send_message, get_history and clear_history.  The variable backend,     *)
(* fixed by Init, says which program runs.                                 *)
(*                                                                         *)
(* Strings are modelled as sequences of tokens (see re_sub), names as      *)
(* strings, the clock as a counter of ticks.  Each Socket.IO or HTTP       *)
(* handler is one action: under eventlet a handler runs to completion      *)
(* unless it blocks, and an uncontended Semaphore does not block.          *)
(***************************************************************************)
EXTENDS Integers, Sequences, FiniteSets, TLC

\* ---------------------------------------------------------------- bounds
\* Connection ids (request.sid) are 1..MaxSid.
MaxSid == 3
\* At most MaxMsgs send_message events are accepted in one run.
MaxMsgs == 3
\* datetime.utcnow() never returns more than MaxClock ticks.
MaxClock == 2
\* Clock ticks per second: timestamps are printed at second precision.
TicksPerSecond == 2
\* A content has at most MaxLen tokens where every content is tried.
MaxLen == 5
\* At most MaxHandlers handler threads run at the same time.
MaxHandlers == 2

\* ------------------------------------------------------ program constants
\* MAX_HISTORY = 100 in both programs; scaled down so that trimming happens.
MAX_HISTORY == 2

\* Python's None, and a key that is absent from the payload dict.
NONE == "<None>"
ABSENT == "<absent>"
\* The literal "匿名" of on_join and on_message.
DEFAULT_NAME == "anon"

Sids == 1..MaxSid
\* The values a payload may carry under the key "username" / "newUsername".
PayloadNames == {ABSENT, NONE, "", "A"}

VARIABLES
    backend,       \* "json" or "mongo": which app.py runs
    connected,     \* transport level: the sids Socket.IO has in the namespace
    issued,        \* the sids this process has handed out so far
    clients,       \* the dict clients: sid -> username (NONE until set)
    joined,        \* history variable: sids whose join handler set a name
    chat_history,  \* json: the in-memory list chat_history
    file,          \* json: HISTORY_FILE, [state, data]
    col,           \* mongo: the collection, documents in insertion order
    clock,         \* ticks of datetime.utcnow()
    nextId,        \* stands for uuid.uuid4(): ids are 1, 2, ...
    clearedAt,     \* history variable: nextId when clear_history last ran
    out,           \* the deliveries of the last handler, in order
    response,      \* the HTTP response of the last route handler
    lastOp,        \* the last handler (or handler step) that ran and its inputs
    clearsInRow,   \* history variable: clear_history calls that ran back to back
    pc,            \* threaded handlers: where each handler thread stands
    local,         \* threaded handlers: the locals of each handler thread
    lock,          \* _history_lock: 0 when free, else the thread that holds it
    appended       \* history variable: ids appended to chat_history since it
                   \* was last emptied, in the order of the appends

vars == <<backend, connected, issued, clients, joined, chat_history, file, col, clock,
          nextId, clearedAt, out, response, lastOp, clearsInRow, pc, local, lock,
          appended>>

\* ------------------------------------------------------------ Python values
\* clients[sid] = MISSING stands for "sid is not a key of clients".
MISSING == "<missing>"

\* Python truthiness of a name: None and "" are falsy.
Truthy(u) == u \notin {NONE, "", ABSENT, MISSING}

\* data.get(key): None when the key is absent.
dict_get(p) == IF p = ABSENT THEN NONE ELSE p

\* data.get(key, default): the default only when the key is absent.
dict_get_default(p, d) == IF p = ABSENT THEN d ELSE p

\* The keys of clients.
Registered == {s \in Sids : clients[s] # MISSING}

RECURSIVE SetToSeq(_)
\* The elements of a set of integers, ascending.
SetToSeq(S) ==
    IF S = {} THEN <<>>
    ELSE LET m == CHOOSE x \in S : \A y \in S : x <= y
         IN  <<m>> \o SetToSeq(S \ {m})

\* seq[-n:] of Python.
LastN(seq, n) ==
    IF Len(seq) <= n THEN seq ELSE SubSeq(seq, Len(seq) - n + 1, Len(seq))

\* list.reverse().
Reverse(seq) == [i \in 1..Len(seq) |-> seq[Len(seq) + 1 - i]]

\* ------------------------------------------------------------------ events
NoMsg == [id |-> 0, username |-> "", content |-> <<>>, timestamp |-> 0]

\* One delivery of an outbound event to the connection `to`.
Ev(event, username, old, count, msg) ==
    [event |-> event, to |-> 0, username |-> username, old |-> old,
     count |-> count, msg |-> msg]

\* Mutant of emit_broadcast: include_self=False is ignored.
emit_broadcast_all(ev, conns, skip) ==
    LET dest == SetToSeq(conns)
    IN  [i \in 1..Len(dest) |-> [ev EXCEPT !.to = dest[i]]]

\* emit(..., broadcast=True): one delivery per connection of conns;
\* include_self=False leaves out the sender (skip = {request.sid}).
emit_broadcast(ev, conns, skip) ==
    LET dest == SetToSeq(conns \ skip)
    IN  [i \in 1..Len(dest) |-> [ev EXCEPT !.to = dest[i]]]

\* emit(..., to=request.sid): the room of one sid, empty once it is gone.
emit_to(ev, conns, sid) ==
    IF sid \in conns THEN << [ev EXCEPT !.to = sid] >> ELSE <<>>

\* Mutant of online_count: every registered connection is counted.
online_count_all(cl) == Cardinality({s \in Sids : cl[s] # MISSING})

\* len([c for c in clients.values() if c["username"]])
online_count(cl) == Cardinality({s \in Sids : Truthy(cl[s])})

\* broadcast_user_count()
broadcast_user_count(cl, conns) ==
    emit_broadcast(Ev("user_count", "", "", online_count(cl), NoMsg), conns, {})

\* ------------------------------------------------------- content cleaning
\* A string is a sequence of tokens: "U" is "user name is " in any case,
\* "N" is "\n", "C" is "content is " in any case, " " is a blank, any other
\* token is one ordinary character.
Whitespace == {" ", "N"}

RECURSIVE lstrip(_)
lstrip(s) ==
    IF s # <<>> /\ Head(s) \in Whitespace THEN lstrip(Tail(s)) ELSE s

RECURSIVE rstrip(_)
rstrip(s) ==
    IF s # <<>> /\ s[Len(s)] \in Whitespace
    THEN rstrip(SubSeq(s, 1, Len(s) - 1)) ELSE s

\* "user name is " and "content is " end in a blank: at the end of a string
\* strip() takes that blank away, and what is left ("U-", "C-") is ordinary
\* text that the pattern does not match.
cut_last(s) ==
    IF s # <<>> /\ s[Len(s)] \in {"U", "C"}
    THEN SubSeq(s, 1, Len(s) - 1) \o << IF s[Len(s)] = "U" THEN "U-" ELSE "C-" >>
    ELSE s

\* str.strip()
strip(s) == cut_last(rstrip(lstrip(s)))

\* Where a match of  user name is .*?\ncontent is  that starts at i ends, or 0.
\* "." does not match "\n", so the lazy .*? stops at the first newline.
MatchEnd(s, i) ==
    IF s[i] # "U" THEN 0
    ELSE LET nl == {k \in (i + 1)..Len(s) : s[k] = "N"}
         IN  IF nl = {} THEN 0
             ELSE LET k == CHOOSE x \in nl : \A y \in nl : x <= y
                  IN  IF k + 1 <= Len(s) /\ s[k + 1] = "C" THEN k + 1 ELSE 0

RECURSIVE re_sub_from(_, _)
re_sub_from(s, i) ==
    IF i > Len(s) THEN <<>>
    ELSE IF MatchEnd(s, i) > 0 THEN re_sub_from(s, MatchEnd(s, i) + 1)
    ELSE <<s[i]>> \o re_sub_from(s, i + 1)

\* re.sub(r"user name is .*?\ncontent is ", "", s, flags=re.IGNORECASE):
\* every non-overlapping match, left to right, is removed.
re_sub(s) == re_sub_from(s, 1)

\* cleaned_content of on_message
cleaned_content(raw) == re_sub(strip(raw))

\* The tokens of the contents ("N" is the white space among them), and
\* every content of at most MaxLen tokens.
Tokens == {"U", "N", "C", "h"}
AllContents == UNION {[1..n -> Tokens] : n \in 0..MaxLen}

\* The contents the model's clients send.
Contents == { <<"h">>, <<" ", "U", "b", "N", "C", "h", " ">> }

\* ------------------------------------------------------------ json storage
AbsentFile == [state |-> "absent", data |-> <<>>]

\* _load_chat_history(): the last MAX_HISTORY entries of a readable list.
load_chat_history(f) ==
    IF f.state = "valid" THEN LastN(f.data, MAX_HISTORY) ELSE <<>>

\* _save_chat_history(): open(..., "w") then json.dump; errors are printed.
\*   "ok"           the file holds the list
\*   "open_failed"  open raised: the file is as it was
\*   "write_failed" open truncated the file and the dump raised
save_chat_history(hist, f, io) ==
    CASE io = "ok" -> [state |-> "valid", data |-> hist]
      [] io = "open_failed" -> f
      [] io = "write_failed" -> [state |-> "corrupt", data |-> <<>>]

\* chat_history after append and the del of the overflow.
append_trim(hist, m) ==
    LET h == Append(hist, m)
    IN  IF Len(h) > MAX_HISTORY
        THEN SubSeq(h, Len(h) - MAX_HISTORY + 1, Len(h)) ELSE h

\* ----------------------------------------------------------- mongo storage
\* The document printed with the clock's reading as it is, not cut to the
\* second the store keeps.
doc_to_message_uncut(doc) ==
    [id |-> doc.id, username |-> doc.username, content |-> doc.content,
     timestamp |-> doc.timestamp]

\* _doc_to_message(doc): the timestamp printed at second precision.
doc_to_message(doc) ==
    [id |-> doc.id, username |-> doc.username, content |-> doc.content,
     timestamp |-> doc.timestamp \div TicksPerSecond]

\* The orders in which .sort("timestamp", DESCENDING) may return c: any
\* order that is non-increasing in timestamp (ties are in no defined order).
SortedDescending(c) ==
    {p \in Permutations(1..Len(c)) :
        \A i, j \in 1..Len(c) : i < j => c[p[i]].timestamp >= c[p[j]].timestamp}

\* Mutant of find_recent: docs.reverse() is left out.
find_recent_newest_first(c, p) ==
    LET n == IF Len(c) < MAX_HISTORY THEN Len(c) ELSE MAX_HISTORY
    IN  [i \in 1..n |-> doc_to_message(c[p[i]])]

\* find().sort(DESCENDING).limit(MAX_HISTORY), list(cursor), docs.reverse(),
\* for the order p the server chose.
find_recent(c, p) ==
    LET n == IF Len(c) < MAX_HISTORY THEN Len(c) ELSE MAX_HISTORY
        docs == [i \in 1..n |-> c[p[i]]]
        rev == Reverse(docs)
    IN  [i \in 1..n |-> doc_to_message(rev[i])]

\* ------------------------------------------------------------------- state
\* The handler threads that may run at the same time.
Handlers == 1..MaxHandlers

\* The locals of a handler thread that is not running.
NoLocal == [sid |-> 0, name |-> "", message |-> NoMsg, stored |-> NoMsg]

NoResponse == [status |-> "none", body |-> <<>>]

\* A handler that ran: the event, the sid, the payload's username and
\* content, whether an exception was raised, and what the storage did.
OpRaw(op, sid, name, raised, io, raw) ==
    [op |-> op, sid |-> sid, name |-> name, raised |-> raised, io |-> io,
     raw |-> raw]

Op(op, sid, name, raised, io) == OpRaw(op, sid, name, raised, io, <<>>)

Init ==
    /\ backend \in {"json", "mongo"}
    /\ connected = {}
    /\ issued = {}
    /\ clients = [s \in Sids |-> MISSING]
    /\ joined = {}
    /\ file = AbsentFile
    /\ chat_history = load_chat_history(file)
    /\ col = <<>>
    /\ clock = 0
    /\ nextId = 1
    /\ clearedAt = 1
    /\ out = <<>>
    /\ response = NoResponse
    /\ lastOp = Op("start", 0, "", FALSE, "none")
    /\ clearsInRow = 0
    /\ pc = [h \in Handlers |-> "idle"]
    /\ local = [h \in Handlers |-> NoLocal]
    /\ lock = 0
    /\ appended = <<>>

\* The state of the handler threads, which the handlers that run to
\* completion leave alone.
threads == <<pc, local, lock, appended>>

storage == <<chat_history, file, col, clock, nextId, clearedAt>>

\* ------------------------------------------------------- registry handlers
\* on_connect: a new transport session; its sid is registered without a name.
on_connect(sid) ==
    /\ sid \notin connected
    /\ connected' = connected \cup {sid}
    /\ issued' = issued \cup {sid}
    /\ clients' = [clients EXCEPT ![sid] = NONE]
    /\ joined' = joined \ {sid}
    /\ out' = <<>>
    /\ response' = NoResponse
    /\ clearsInRow' = 0
    /\ lastOp' = Op("connect", sid, "", FALSE, "none")
    /\ UNCHANGED <<threads, backend, storage>>

\* on_disconnect: clients.pop(sid, None); user_left and user_count when the
\* popped entry has a truthy name.  A disconnect for a sid that is already
\* gone pops None.
on_disconnect(sid) ==
    LET info == clients[sid]
        conns == connected \ {sid}
        cl == [clients EXCEPT ![sid] = MISSING]
    IN  /\ sid \in issued
        /\ connected' = conns
        /\ clients' = cl
        /\ joined' = joined \ {sid}
        /\ out' = IF Truthy(info)
                  THEN emit_broadcast(Ev("user_left", info, "", 0, NoMsg), conns, {})
                       \o broadcast_user_count(cl, conns)
                  ELSE <<>>
        /\ response' = NoResponse
        /\ clearsInRow' = 0
        /\ lastOp' = Op("disconnect", sid, "", FALSE, "none")
        /\ UNCHANGED <<threads, backend, issued, storage>>

\* on_join: clients[request.sid]["username"] = data.get("username", "匿名");
\* the subscript raises KeyError when the sid is not a key.
on_join(sid, p) ==
    LET username == dict_get_default(p, DEFAULT_NAME)
        cl == [clients EXCEPT ![sid] = username]
    IN  /\ sid \in issued
        /\ response' = NoResponse
        /\ IF clients[sid] = MISSING
           THEN /\ out' = <<>>
                /\ clearsInRow' = 0
                /\ lastOp' = Op("join", sid, p, TRUE, "none")
                /\ UNCHANGED <<clients, joined>>
           ELSE /\ clients' = cl
                /\ joined' = joined \cup {sid}
                /\ out' = emit_broadcast(
                              Ev("user_joined", username, "", 0, NoMsg),
                              connected, {})
                          \o broadcast_user_count(cl, connected)
                /\ clearsInRow' = 0
                /\ lastOp' = Op("join", sid, p, FALSE, "none")
        /\ UNCHANGED <<threads, backend, issued, connected, storage>>

\* on_typing: the payload is relayed to the others.
on_typing(sid, p) ==
    /\ sid \in issued
    /\ out' = emit_broadcast(Ev("typing", p, "", 0, NoMsg), connected, {sid})
    /\ response' = NoResponse
    /\ clearsInRow' = 0
    /\ lastOp' = Op("typing", sid, p, FALSE, "none")
    /\ UNCHANGED <<threads, backend, issued, connected, clients, joined, storage>>

\* The registry after clients[sid] = {"username": new}, which makes an
\* entry for a sid that has none.
rename_any(cl, sid, new) == [cl EXCEPT ![sid] = new]

\* if request.sid in clients: clients[request.sid]["username"] = new
rename(cl, sid, new) ==
    IF cl[sid] # MISSING THEN [cl EXCEPT ![sid] = new] ELSE cl

\* on_change: the name is replaced when the sid is a key; always announced.
on_change(sid, oldp, newp) ==
    LET old == dict_get(oldp)
        new == dict_get(newp)
    IN  /\ sid \in issued
        /\ clients' = rename(clients, sid, new)
        /\ out' = emit_broadcast(Ev("user_changed_name", new, old, 0, NoMsg),
                                 connected, {})
        /\ response' = NoResponse
        /\ clearsInRow' = 0
        /\ lastOp' = Op("change_username", sid, newp, FALSE, "none")
        /\ UNCHANGED <<threads, backend, issued, connected, joined, storage>>

\* ------------------------------------------------------------- send_message
\* datetime.utcnow(): the clock has advanced by dt ticks since it was last
\* read.
utcnow(dt) == clock + dt

\* The name resolved with the payload first:
\* data.get("username") or clients[sid]["username"] or "匿名".
resolve_username_payload_first(cl, sid, p) ==
    IF Truthy(dict_get(p)) THEN dict_get(p)
    ELSE IF Truthy(cl[sid]) THEN cl[sid]
    ELSE DEFAULT_NAME

\* username = (clients.get(sid, {}) or {}).get("username")
\*            or data.get("username") or "匿名"
resolve_username(cl, sid, p) ==
    IF Truthy(cl[sid]) THEN cl[sid]
    ELSE IF Truthy(dict_get(p)) THEN dict_get(p)
    ELSE DEFAULT_NAME

ChatError == Ev("chat_error", "", "", 0, NoMsg)

\* on_message of the file-backed program.  `bad` is a payload that is not a
\* dict: data.get raises and the except clause reports to the sender.  io is
\* what the file system does to _save_chat_history, which swallows it.
json_on_message(sid, p, raw, bad, dt, io) ==
    /\ backend = "json"
    /\ io \in {"ok", "open_failed", "write_failed"}
    /\ sid \in issued
    /\ nextId <= MaxMsgs
    /\ utcnow(dt) <= MaxClock
    /\ IF bad
       THEN /\ out' = emit_to(ChatError, connected, sid)
            /\ clearsInRow' = 0
            /\ lastOp' = Op("send_message", sid, p, TRUE, "none")
            /\ UNCHANGED <<chat_history, file, nextId, clock>>
       ELSE LET message == [id |-> nextId,
                            username |-> resolve_username(clients, sid, p),
                            content |-> cleaned_content(raw),
                            timestamp |-> utcnow(dt) \div TicksPerSecond]
                hist == append_trim(chat_history, message)
            IN  /\ chat_history' = hist
                /\ file' = save_chat_history(hist, file, io)
                /\ nextId' = nextId + 1
                /\ clock' = utcnow(dt)
                /\ out' = emit_broadcast(Ev("chat_message", "", "", 0, message),
                                         connected, {sid})
                /\ clearsInRow' = 0
                /\ lastOp' = OpRaw("send_message", sid, p, FALSE, io, raw)
    /\ response' = NoResponse
    /\ UNCHANGED <<threads, backend, issued, connected, clients, joined, col, clearedAt>>

\* on_message of the document-store program: insert_one raises on failure
\* and the except clause reports to the sender.
mongo_on_message(sid, p, raw, bad, dt, io) ==
    /\ backend = "mongo"
    /\ io \in {"ok", "insert_failed"}
    /\ sid \in issued
    /\ nextId <= MaxMsgs
    /\ utcnow(dt) <= MaxClock
    /\ IF bad
       THEN /\ out' = emit_to(ChatError, connected, sid)
            /\ clearsInRow' = 0
            /\ lastOp' = Op("send_message", sid, p, TRUE, "none")
            /\ UNCHANGED <<col, nextId, clock>>
       ELSE LET doc == [id |-> nextId,
                        username |-> resolve_username(clients, sid, p),
                        content |-> cleaned_content(raw),
                        timestamp |-> utcnow(dt)]
            IN  /\ nextId' = nextId + 1
                /\ clock' = utcnow(dt)
                /\ IF io = "ok"
                   THEN /\ col' = Append(col, doc)
                        /\ out' = emit_broadcast(
                                      Ev("chat_message", "", "", 0, doc_to_message(doc)),
                                      connected, {sid})
                        /\ clearsInRow' = 0
                        /\ lastOp' = OpRaw("send_message", sid, p, FALSE, io, raw)
                   ELSE /\ col' = col
                        /\ out' = emit_to(ChatError, connected, sid)
                        /\ clearsInRow' = 0
                        /\ lastOp' = OpRaw("send_message", sid, p, TRUE, io, raw)
    /\ response' = NoResponse
    /\ UNCHANGED <<threads, backend, issued, connected, clients, joined, chat_history, file,
                   clearedAt>>

\* ------------------------------------------------------------------ routes
\* GET /get_history of the file-backed program: jsonify(chat_history).
json_get_history ==
    /\ backend = "json"
    /\ response' = [status |-> "ok", body |-> chat_history]
    /\ out' = <<>>
    /\ clearsInRow' = 0
    /\ lastOp' = Op("get_history", 0, "", FALSE, "none")
    /\ UNCHANGED <<threads, backend, issued, connected, clients, joined, storage>>

\* GET /get_history of the document-store program.
mongo_get_history ==
    /\ backend = "mongo"
    /\ \E p \in SortedDescending(col) :
           response' = [status |-> "ok", body |-> find_recent(col, p)]
    /\ out' = <<>>
    /\ clearsInRow' = 0
    /\ lastOp' = Op("get_history", 0, "", FALSE, "none")
    /\ UNCHANGED <<threads, backend, issued, connected, clients, joined, storage>>

\* One more clear_history call in a row; the claim about repeated calls
\* needs no more than two.
one_more_clear(n) == IF n < 2 THEN n + 1 ELSE 2

\* if os.path.exists(HISTORY_FILE): os.remove(HISTORY_FILE), without the
\* test: os.remove raises FileNotFoundError when there is no file.
remove_unchecked(f, io) ==
    IF f.state = "absent" THEN [file |-> f, ok |-> FALSE]
    ELSE IF io = "ok" THEN [file |-> AbsentFile, ok |-> TRUE]
    ELSE [file |-> f, ok |-> FALSE]

\* if os.path.exists(HISTORY_FILE): os.remove(HISTORY_FILE).  ok is FALSE
\* when os.remove raised.
remove_history_file(f, io) ==
    IF f.state = "absent" THEN [file |-> f, ok |-> TRUE]
    ELSE IF io = "ok" THEN [file |-> AbsentFile, ok |-> TRUE]
    ELSE [file |-> f, ok |-> FALSE]

\* POST /clear_history of the file-backed program: the list is emptied
\* first, then the file is removed if it exists; a failed os.remove
\* returns the 500 response.
json_clear_history(io) ==
    LET removed == remove_history_file(file, io)
    IN  /\ backend = "json"
        /\ io = "remove_failed" => file.state # "absent"
        /\ chat_history' = <<>>
        /\ clearedAt' = nextId
        /\ file' = removed.file
        /\ response' = [status |-> IF removed.ok THEN "success" ELSE "error",
                        body |-> <<>>]
        /\ out' = <<>>
        /\ clearsInRow' = one_more_clear(clearsInRow)
        /\ lastOp' = Op("clear_history", 0, "", FALSE, io)
        /\ UNCHANGED <<threads, backend, issued, connected, clients, joined, col, clock,
                       nextId>>

\* POST /clear_history of the document-store program: delete_many({}).
mongo_clear_history(io) ==
    /\ backend = "mongo"
    /\ col' = IF io = "ok" THEN <<>> ELSE col
    /\ clearedAt' = IF io = "ok" THEN nextId ELSE clearedAt
    /\ response' = [status |-> IF io = "ok" THEN "success" ELSE "error",
                    body |-> <<>>]
    /\ out' = <<>>
    /\ clearsInRow' = one_more_clear(clearsInRow)
    /\ lastOp' = Op("clear_history", 0, "", FALSE, io)
    /\ UNCHANGED <<threads, backend, issued, connected, clients, joined, chat_history, file,
                   clock, nextId>>

\* ------------------------------------------------------------- environment
\* The process is started again: module level code runs, so clients is
\* empty, every connection is gone and _load_chat_history() reads the file.
Restart ==
    /\ connected' = {}
    /\ issued' = {}
    /\ clients' = [s \in Sids |-> MISSING]
    /\ joined' = {}
    /\ chat_history' = IF backend = "json" THEN load_chat_history(file)
                       ELSE chat_history
    /\ out' = <<>>
    /\ response' = NoResponse
    /\ clearsInRow' = 0
    /\ lastOp' = Op("restart", 0, "", FALSE, "none")
    /\ UNCHANGED <<threads, backend, file, col, clock, nextId, clearedAt>>

\* ----------------------------------------------------------- handler threads
\* With async_mode "threading" every handler runs in a thread of its own and
\* _history_lock is a threading.Lock; a thread may be suspended between any
\* two statements.  Each action below is one statement, or a run of
\* statements that touch no shared state, of the handler that thread h runs.
\* (With "eventlet" the handlers above, which run to completion, are the
\* only interleavings.)

\* A lock that excludes nobody.
lock_ignored(l) == TRUE

\* _history_lock can be taken: nobody holds it.
lock_free(l) == l = 0

\* A clear_history that releases the lock by hand, on the success path
\* only.
lock_kept_on_error(l, ok) == IF ok THEN 0 ELSE l

\* The lock after clear_history's return: "with" releases it on every path.
lock_after_clear(l, ok) == 0

\* The thread states in which a thread waits for _history_lock.
Waiting == {"acquire", "c_acquire"}

\* The thread states inside a "with _history_lock:" block.
Locked == {"append", "trim", "save", "c_empty", "c_remove"}

\* on_message up to the lock (file-backed) or up to insert_one (document
\* store): the name is resolved, the content cleaned, the id drawn and the
\* clock read.  A payload that is no dict raises: chat_error to the sender.
t_begin_message(h, sid, p, raw, bad, dt) ==
    /\ pc[h] = "idle"
    /\ sid \in issued
    /\ nextId <= MaxMsgs
    /\ utcnow(dt) <= MaxClock
    /\ IF bad
       THEN /\ out' = emit_to(ChatError, connected, sid)
            /\ lastOp' = Op("begin_message", sid, p, TRUE, "none")
            /\ UNCHANGED <<pc, local, nextId, clock>>
       ELSE LET now == utcnow(dt)
                message == [id |-> nextId,
                            username |-> resolve_username(clients, sid, p),
                            content |-> cleaned_content(raw),
                            timestamp |-> IF backend = "json"
                                          THEN now \div TicksPerSecond
                                          ELSE now]
            IN  /\ local' = [local EXCEPT ![h] =
                                [sid |-> sid, name |-> p, message |-> message,
                                 stored |-> NoMsg]]
                /\ pc' = [pc EXCEPT ![h] = IF backend = "json" THEN "acquire"
                                           ELSE "insert"]
                /\ nextId' = nextId + 1
                /\ clock' = now
                /\ out' = <<>>
                /\ lastOp' = OpRaw("begin_message", sid, p, FALSE, "none", raw)
    /\ response' = NoResponse
    /\ clearsInRow' = 0
    /\ UNCHANGED <<backend, issued, connected, clients, joined, chat_history, file,
                   col, clearedAt, lock, appended>>

\* "with _history_lock:" is entered, by on_message or by clear_history.
t_acquire(h) ==
    /\ pc[h] \in Waiting
    /\ lock_free(lock)
    /\ lock' = h
    /\ pc' = [pc EXCEPT ![h] = IF pc[h] = "acquire" THEN "append" ELSE "c_empty"]
    /\ out' = <<>>
    /\ response' = NoResponse
    /\ clearsInRow' = 0
    /\ lastOp' = Op("acquire", local[h].sid, "", FALSE, "none")
    /\ UNCHANGED <<backend, issued, connected, clients, joined, storage, local,
                   appended>>

\* chat_history.append(message)
t_append(h) ==
    /\ pc[h] = "append"
    /\ chat_history' = Append(chat_history, local[h].message)
    /\ appended' = Append(appended, local[h].message.id)
    /\ local' = [local EXCEPT ![h].stored = local[h].message]
    /\ pc' = [pc EXCEPT ![h] = "trim"]
    /\ out' = <<>>
    /\ response' = NoResponse
    /\ clearsInRow' = 0
    /\ lastOp' = Op("append", local[h].sid, "", FALSE, "none")
    /\ UNCHANGED <<backend, issued, connected, clients, joined, file, col, clock,
                   nextId, clearedAt, lock>>

\* if len(chat_history) > MAX_HISTORY: del chat_history[0:len - MAX_HISTORY]
t_trim(h) ==
    /\ pc[h] = "trim"
    /\ chat_history' = LastN(chat_history, MAX_HISTORY)
    /\ pc' = [pc EXCEPT ![h] = "save"]
    /\ out' = <<>>
    /\ response' = NoResponse
    /\ clearsInRow' = 0
    /\ lastOp' = Op("trim", local[h].sid, "", FALSE, "none")
    /\ UNCHANGED <<backend, issued, connected, clients, joined, file, col, clock,
                   nextId, clearedAt, local, lock, appended>>

\* _save_chat_history(), which swallows what the file system raises, and
\* the end of the with block, which releases the lock.
t_save(h, io) ==
    /\ pc[h] = "save"
    /\ io \in {"ok", "open_failed", "write_failed"}
    /\ file' = save_chat_history(chat_history, file, io)
    /\ lock' = 0
    /\ pc' = [pc EXCEPT ![h] = "emit"]
    /\ out' = <<>>
    /\ response' = NoResponse
    /\ clearsInRow' = 0
    /\ lastOp' = Op("save", local[h].sid, "", FALSE, io)
    /\ UNCHANGED <<backend, issued, connected, clients, joined, chat_history, col,
                   clock, nextId, clearedAt, local, appended>>

\* col.insert_one(doc); when it raises, the except clause reports to the
\* sender and the handler is over.
t_insert(h, io) ==
    /\ pc[h] = "insert"
    /\ io \in {"ok", "insert_failed"}
    /\ IF io = "ok"
       THEN /\ col' = Append(col, local[h].message)
            /\ local' = [local EXCEPT ![h].stored = local[h].message]
            /\ pc' = [pc EXCEPT ![h] = "emit"]
            /\ out' = <<>>
       ELSE /\ col' = col
            /\ local' = [local EXCEPT ![h] = NoLocal]
            /\ pc' = [pc EXCEPT ![h] = "idle"]
            /\ out' = emit_to(ChatError, connected, local[h].sid)
    /\ response' = NoResponse
    /\ clearsInRow' = 0
    /\ lastOp' = Op("insert", local[h].sid, "", io # "ok", io)
    /\ UNCHANGED <<backend, issued, connected, clients, joined, chat_history, file,
                   clock, nextId, clearedAt, lock, appended>>

\* emit("chat_message", message, broadcast=True, include_self=False); the
\* document store's handler emits _doc_to_message(doc).
t_emit(h) ==
    /\ pc[h] = "emit"
    /\ LET message == IF backend = "json" THEN local[h].message
                      ELSE doc_to_message(local[h].message)
       IN  out' = emit_broadcast(Ev("chat_message", "", "", 0, message),
                                 connected, {local[h].sid})
    /\ pc' = [pc EXCEPT ![h] = "idle"]
    /\ local' = [local EXCEPT ![h] = NoLocal]
    /\ response' = NoResponse
    /\ clearsInRow' = 0
    /\ lastOp' = Op("emit", local[h].sid, local[h].name, FALSE, "none")
    /\ UNCHANGED <<backend, issued, connected, clients, joined, storage, lock,
                   appended>>

\* POST /clear_history of the file-backed program arrives.
t_begin_clear(h) ==
    /\ backend = "json"
    /\ pc[h] = "idle"
    /\ pc' = [pc EXCEPT ![h] = "c_acquire"]
    /\ out' = <<>>
    /\ response' = NoResponse
    /\ clearsInRow' = 0
    /\ lastOp' = Op("begin_clear", 0, "", FALSE, "none")
    /\ UNCHANGED <<backend, issued, connected, clients, joined, storage, local,
                   lock, appended>>

\* chat_history = []
t_empty(h) ==
    /\ pc[h] = "c_empty"
    /\ chat_history' = <<>>
    /\ appended' = <<>>
    /\ clearedAt' = nextId
    /\ pc' = [pc EXCEPT ![h] = "c_remove"]
    /\ out' = <<>>
    /\ response' = NoResponse
    /\ clearsInRow' = 0
    /\ lastOp' = Op("empty", 0, "", FALSE, "none")
    /\ UNCHANGED <<backend, issued, connected, clients, joined, file, col, clock,
                   nextId, local, lock>>

\* The file is removed if it exists and the response returned; the return
\* leaves the with block, on the error path too, which releases the lock.
t_remove(h, io) ==
    LET removed == remove_history_file(file, io)
    IN  /\ pc[h] = "c_remove"
        /\ io \in {"ok", "remove_failed"}
        /\ io = "remove_failed" => file.state # "absent"
        /\ file' = removed.file
        /\ lock' = lock_after_clear(lock, removed.ok)
        /\ pc' = [pc EXCEPT ![h] = "idle"]
        /\ response' = [status |-> IF removed.ok THEN "success" ELSE "error",
                        body |-> <<>>]
        /\ out' = <<>>
        /\ clearsInRow' = 0
        /\ lastOp' = Op("remove", 0, "", FALSE, io)
        /\ UNCHANGED <<backend, issued, connected, clients, joined, chat_history,
                       col, clock, nextId, clearedAt, local, appended>>

\* One step of the handler that thread h runs, past its first and other
\* than taking the lock; ios is what the storage may do.
t_step(h, ios) ==
    \/ t_append(h)
    \/ t_trim(h)
    \/ \E io \in ios : t_save(h, io)
    \/ \E io \in ios : t_insert(h, io)
    \/ t_emit(h)
    \/ t_empty(h)
    \/ \E io \in ios : t_remove(h, io)

\* A handler that starts runs in the first thread that is idle.
FirstIdle(h) == pc[h] = "idle" /\ \A g \in Handlers : g < h => pc[g] # "idle"

\* The inputs of one send_message event: a payload that is a dict with the
\* key "username" holding p (from P) and "content" holding raw, or (bad) a
\* payload that is no dict; dt ticks (from D) have passed since the clock
\* was last read; io (from ios) is what the storage does.
MessageInputsOf(P, Cs, D, ios) ==
    {i \in P \X Cs \X BOOLEAN \X D \X ios :
        i[3] => (i[1] = ABSENT /\ i[2] = <<"h">> /\ i[4] = 0 /\ i[5] = "ok")}

MessageInputs(P, D, ios) == MessageInputsOf(P, Contents, D, ios)

\* The payloads of typing events and the oldUsername values that are sent.
TypingPayloads == {"A"}
OldNames == {"A"}

\* The registry handlers, with every payload.
RegistryNext ==
    \/ \E sid \in Sids : on_connect(sid)
    \/ \E sid \in Sids : on_disconnect(sid)
    \/ \E sid \in Sids, p \in PayloadNames : on_join(sid, p)
    \/ \E sid \in Sids, p \in TypingPayloads : on_typing(sid, p)
    \/ \E sid \in Sids, oldp \in OldNames, newp \in PayloadNames :
           on_change(sid, oldp, newp)

\* send_message from the connections S with the inputs I.
Messages(S, I) ==
    \/ \E sid \in S, i \in I : json_on_message(sid, i[1], i[2], i[3], i[4], i[5])
    \/ \E sid \in S, i \in I : mongo_on_message(sid, i[1], i[2], i[3], i[4], i[5])

\* What the storage may do to a write.
WriteOutcomes == {"ok", "open_failed", "write_failed", "insert_failed"}

\* The two HTTP routes.
Routes ==
    \/ json_get_history
    \/ mongo_get_history
    \/ \E io \in {"ok", "remove_failed"} : json_clear_history(io)
    \/ \E io \in {"ok", "delete_failed"} : mongo_clear_history(io)

Next ==
    \/ RegistryNext
    \/ Messages(Sids, MessageInputs(PayloadNames, 0..1, WriteOutcomes))
    \/ Routes
    \/ Restart

\* The whole program.  Its sub-specifications below take the same actions
\* with fewer inputs, so each of their behaviours is a behaviour of Spec.
Spec == Init /\ [][Next]_vars

\* The registry on its own: no message is sent and no route is called.
SpecRegistry == Init /\ [][RegistryNext \/ Restart]_vars

\* The fan-out: every connection comes, goes, types and sends, none declares
\* a name, and no time passes between two messages.
FanoutNext ==
    \/ \E sid \in Sids : on_connect(sid)
    \/ \E sid \in Sids : on_disconnect(sid)
    \/ \E sid \in Sids, p \in TypingPayloads : on_typing(sid, p)
    \/ Messages(Sids, MessageInputs({ABSENT}, {0}, {"ok", "open_failed", "insert_failed"}))

SpecFanout == Init /\ [][FanoutNext]_vars

\* The history store: two connections send, with every storage outcome,
\* the routes are called and the process restarts.
StoreSids == {1, 2}

StoreNext ==
    \/ \E sid \in StoreSids : on_connect(sid)
    \/ \E sid \in StoreSids : on_disconnect(sid)
    \/ Messages(StoreSids, MessageInputs({ABSENT, "A"}, 0..1, WriteOutcomes))
    \/ Routes
    \/ Restart

SpecStore == Init /\ [][StoreNext]_vars

\* The registry together with send_message: two connections join, rename
\* themselves and send messages under every payload username; the storage
\* does not fail.
NamesNext ==
    \/ \E sid \in StoreSids : on_connect(sid)
    \/ \E sid \in StoreSids : on_disconnect(sid)
    \/ \E sid \in StoreSids, p \in PayloadNames : on_join(sid, p)
    \/ \E sid \in StoreSids, p \in TypingPayloads : on_typing(sid, p)
    \/ \E sid \in StoreSids, oldp \in OldNames, newp \in PayloadNames :
           on_change(sid, oldp, newp)
    \/ Messages(StoreSids, MessageInputsOf(PayloadNames, {<<"h">>}, {0}, {"ok"}))

SpecNames == Init /\ [][NamesNext]_vars

\* Content cleaning on its own: one connection sends every content of at
\* most MaxLen tokens, each into an empty log, which clear_history empties
\* again.
CleanNext ==
    \/ on_connect(1)
    \/ /\ chat_history = <<>>
       /\ col = <<>>
       /\ Messages({1}, MessageInputsOf({ABSENT}, AllContents, {0}, {"ok"}))
    \/ json_clear_history("ok")
    \/ mongo_clear_history("ok")

SpecClean == Init /\ [][CleanNext]_vars

\* What the storage may do to any of its operations.
Outcomes == WriteOutcomes \cup {"remove_failed", "delete_failed"}

\* The handlers of the history as threads: the connections C connect, the
\* connections S send messages with the inputs I, clear_history is called,
\* and the storage does ios.
HandlersNext(C, S, I, ios) ==
    \/ \E sid \in C : on_connect(sid)
    \/ \E h \in Handlers, sid \in S, i \in I :
           FirstIdle(h) /\ t_begin_message(h, sid, i[1], i[2], i[3], i[4])
    \/ \E h \in Handlers : FirstIdle(h) /\ t_begin_clear(h)
    \/ \E h \in Handlers : t_acquire(h)
    \/ \E h \in Handlers : t_step(h, ios)

\* The handler threads together with the routes that take no lock.
ThreadsNext(C, S, I, ios) ==
    \/ HandlersNext(C, S, I, ios)
    \/ json_get_history
    \/ mongo_get_history
    \/ \E io \in ios \cap {"ok", "delete_failed"} : mongo_clear_history(io)

\* The inputs of the threaded send_message handlers: the clock moves or
\* stands still between two readings.
ThreadInputs == MessageInputsOf({ABSENT}, {<<"h">>}, 0..1, {"ok"})
StillInputs == MessageInputsOf({ABSENT}, {<<"h">>}, {0}, {"ok"})

\* Two connections send, and the storage does whatever it may.
SpecThreads ==
    Init /\ [][ThreadsNext(StoreSids, StoreSids, ThreadInputs, Outcomes)]_vars

\* One connection sends while the storage does not fail.
SpecThreadsOk == Init /\ [][ThreadsNext({1}, {1}, StillInputs, {"ok"})]_vars

\* Two connections, one of which sends; an insert_one may fail.
SpecBroadcast ==
    Init /\ [][HandlersNext(StoreSids, {1}, ThreadInputs,
                            {"ok", "insert_failed"})]_vars

\* The threads under fair scheduling: a thread that can take a step takes
\* one, and a thread that waits for the lock gets it if the lock is free
\* again and again.  One connection sends; every storage operation may
\* fail.
Fairness ==
    \A h \in Handlers : WF_vars(t_step(h, Outcomes)) /\ SF_vars(t_acquire(h))

SpecThreadsFair ==
    Init /\ [][HandlersNext({1}, {1}, StillInputs, Outcomes)]_vars /\ Fairness

\* =================================================================== claims
\* The places of out that hold the event ev.
Deliveries(o, ev) == {i \in 1..Len(o) : o[i].event = ev}

\* The places of out that hold the event ev for the connection c.
DeliveriesTo(o, ev, c) == {i \in Deliveries(o, ev) : o[i].to = c}

\* A display name is non-empty when it is neither None nor "".
NonEmptyName(u) == u \notin {MISSING, NONE, ""}

\* ----------------------------------------------------------------------- C3
\* C3 (as claimed): a disconnect of a connection that had joined delivers
\* exactly one user_left, carrying its name, to every remaining connection,
\* and a disconnect of a connection that had not joined (or is already gone)
\* delivers none.
C3_DepartureOncePerJoined ==
    [][ lastOp'.op = "disconnect" =>
          LET s == lastOp'.sid
          IN  \A c \in connected' :
                 IF s \in joined
                 THEN /\ Cardinality(DeliveriesTo(out', "user_left", c)) = 1
                      /\ \A i \in DeliveriesTo(out', "user_left", c) :
                             out'[i].username = clients[s]
                 ELSE DeliveriesTo(out', "user_left", c) = {} ]_vars

\* ----------------------------------------------------------------------- C5
\* C5: every user_count delivery carries the number of registered
\* connections whose display name is non-empty at the moment of the emit
\* (the handlers emit after their last change of clients).
C5_CountIsNamedConnections ==
    \A i \in Deliveries(out, "user_count") :
        out[i].count = Cardinality({s \in Registered : NonEmptyName(clients[s])})

\* Three connections are registered, two of them joined under a name, the
\* third has none, and the user_count just delivered says 2.
C5_Witness ==
    /\ Cardinality(Registered) = 3
    /\ Cardinality(joined) = 2
    /\ \A s \in Registered : s \in joined <=> NonEmptyName(clients[s])
    /\ Deliveries(out, "user_count") # {}
    /\ \A i \in Deliveries(out, "user_count") : out[i].count = 2

\* ----------------------------------------------------------------------- C9
\* C9 (as claimed): a join for a sid that is not registered changes nothing
\* and the handler does not raise.
C9_JoinUnknownIsSilent ==
    [][ (lastOp'.op = "join" /\ clients[lastOp'.sid] = MISSING) =>
          (clients' = clients /\ ~lastOp'.raised) ]_vars

\* ---------------------------------------------------------------------- C10
\* C10 (as claimed): after a join of a registered connection its name is the
\* requested name, or the placeholder when the request is empty or absent.
C10_JoinSetsNameOrPlaceholder ==
    (lastOp.op = "join" /\ ~lastOp.raised) =>
        clients[lastOp.sid] =
            IF lastOp.name \in {ABSENT, NONE, ""} THEN DEFAULT_NAME
            ELSE lastOp.name

\* ----------------------------------------------------------------------- C1
\* The ids appended since the last clear, the last MAX_HISTORY of them:
\* send_message hands out consecutive ids, so these are lo .. nextId - 1.
RecentAppendedIds ==
    LET lo == IF nextId - MAX_HISTORY > clearedAt
              THEN nextId - MAX_HISTORY ELSE clearedAt
    IN  [i \in 1..(nextId - lo) |-> lo + i - 1]

\* The ids of a list of messages, in order.
Ids(h) == [i \in 1..Len(h) |-> h[i].id]

\* C1 (as claimed): file-backed, what get_history returns is at most
\* MAX_HISTORY messages, and exactly the most recently appended ones since
\* the last clear, oldest first.
C1_HistoryIsRecentAppends ==
    (backend = "json" /\ lastOp.op = "get_history") =>
        /\ Len(response.body) <= MAX_HISTORY
        /\ Ids(response.body) = RecentAppendedIds

\* ----------------------------------------------------------------------- C2
IoFailures == {"open_failed", "write_failed", "insert_failed"}

\* C2 (as claimed): when persisting a submitted message fails, no
\* chat_message is delivered to anyone and exactly one chat_error is
\* delivered, to the (still connected) sender and to nobody else.
C2_PersistFailureIsReportedToSender ==
    (lastOp.op = "send_message" /\ lastOp.io \in IoFailures
     /\ lastOp.sid \in connected) =>
        /\ Deliveries(out, "chat_message") = {}
        /\ Cardinality(Deliveries(out, "chat_error")) = 1
        /\ \A i \in Deliveries(out, "chat_error") : out[i].to = lastOp.sid

\* ----------------------------------------------------------------------- C4
\* C4: the chat_message of a successful send_message and the typing event of
\* a typing are never delivered to their sender, and are delivered exactly
\* once to every other registered connection.
C4_SelfExclusion ==
    (lastOp.op \in {"typing", "send_message"}) =>
        LET ev == IF lastOp.op = "typing" THEN "typing" ELSE "chat_message"
        IN  /\ DeliveriesTo(out, ev, lastOp.sid) = {}
            /\ (lastOp.op = "typing" \/ ~lastOp.raised) =>
                  \A c \in Registered \ {lastOp.sid} :
                      Cardinality(DeliveriesTo(out, ev, c)) = 1

\* Three connections are registered, one of them has just sent a message
\* and the two others, and only they, got the chat_message.
C4_Witness ==
    /\ lastOp.op = "send_message"
    /\ ~lastOp.raised
    /\ Cardinality(Registered) = 3
    /\ lastOp.sid \in Registered
    /\ Cardinality(Deliveries(out, "chat_message")) = 2
    /\ Len(out) = 2

\* ----------------------------------------------------------------------- C6
\* C6 (as claimed): file-backed, a send_message either leaves the message
\* last in the trimmed in-memory log with the file holding that log, or it
\* reports a failure and changes neither the log nor the file.
C6_AppendAllOrNothing ==
    [][ (backend = "json" /\ lastOp'.op = "send_message") =>
          \/ /\ chat_history' # <<>>
             /\ chat_history'[Len(chat_history')].id = nextId
             /\ Len(chat_history') <= MAX_HISTORY
             /\ file' = [state |-> "valid", data |-> chat_history']
          \/ /\ lastOp'.raised
             /\ chat_history' = chat_history
             /\ file' = file ]_vars

\* ----------------------------------------------------------------------- C7
\* C7 (as claimed): file-backed, when clear_history reports failure the
\* in-memory log and the file still agree, so a reload reads the same log.
C7_FailedClearKeepsFileAndLogEqual ==
    (backend = "json" /\ lastOp.op = "clear_history"
     /\ response.status = "error") =>
        load_chat_history(file) = chat_history

\* ----------------------------------------------------------------------- C8
\* The stored document whose id is id.
StoredDoc(id) == CHOOSE d \in {col[k] : k \in 1..Len(col)} : d.id = id

\* The last n elements of a sequence, as printed messages.
RecentInserted ==
    LET r == LastN(col, MAX_HISTORY)
    IN  [i \in 1..Len(r) |-> doc_to_message(r[i])]

\* The stored timestamps strictly increase in insertion order.
IncreasingTimestamps ==
    \A i, j \in 1..Len(col) : i < j => col[i].timestamp < col[j].timestamp

\* C8 (as claimed): document store, what get_history returns is the most
\* recently inserted MAX_HISTORY messages, in insertion order.
C8_RecentInInsertionOrder ==
    (backend = "mongo" /\ lastOp.op = "get_history") =>
        response.body = RecentInserted

\* C8 (amended): document store, get_history returns min(n, MAX_HISTORY) of
\* the n stored messages, each once, in non-decreasing order of stored
\* timestamp, and no message that is left out has a later stored timestamp
\* than one that is returned; when the stored timestamps strictly increase
\* in insertion order these are the most recently inserted messages in
\* insertion order.
C8_RecentByTimestamp ==
    (backend = "mongo" /\ lastOp.op = "get_history") =>
        LET b == response.body
            got == {b[i].id : i \in 1..Len(b)}
            all == {col[k].id : k \in 1..Len(col)}
        IN  /\ Len(b) = IF Len(col) < MAX_HISTORY THEN Len(col) ELSE MAX_HISTORY
            /\ got \subseteq all
            /\ Cardinality(got) = Len(b)
            /\ \A i \in 1..Len(b) : b[i] = doc_to_message(StoredDoc(b[i].id))
            /\ \A i, j \in 1..Len(b) :
                   i < j => StoredDoc(b[i].id).timestamp
                              <= StoredDoc(b[j].id).timestamp
            /\ \A x \in all \ got : \A y \in got :
                   StoredDoc(x).timestamp <= StoredDoc(y).timestamp
            /\ IncreasingTimestamps => b = RecentInserted

\* More than MAX_HISTORY documents are stored, two of them with the same
\* timestamp, and get_history has returned something other than the most
\* recently inserted ones in insertion order.
C8_Witness ==
    /\ backend = "mongo"
    /\ lastOp.op = "get_history"
    /\ Len(col) > MAX_HISTORY
    /\ ~IncreasingTimestamps
    /\ response.body # RecentInserted

\* ---------------------------------------------------------------------- C11
\* The record the last send_message stored.
LastStored ==
    IF backend = "json" THEN chat_history[Len(chat_history)]
    ELSE doc_to_message(col[Len(col)])

\* C11: the author of the message a send_message stored and broadcast is
\* the sender's registered display name when that is non-empty, else the
\* payload's username when that is non-empty, else the placeholder.  (A
\* send_message leaves clients alone, so clients is the registry the
\* handler read.)
C11_AuthorResolution ==
    (lastOp.op = "send_message" /\ ~lastOp.raised) =>
        LET reg == clients[lastOp.sid]
            pay == lastOp.name
            author == IF NonEmptyName(reg) THEN reg
                      ELSE IF pay \notin {ABSENT, NONE, ""} THEN pay
                      ELSE DEFAULT_NAME
        IN  /\ LastStored.username = author
            /\ \A i \in Deliveries(out, "chat_message") :
                   out[i].msg.username = author

\* A connection registered under the placeholder has sent a message whose
\* payload names "A"; the other connection got it under the placeholder.
C11_Witness ==
    /\ lastOp.op = "send_message"
    /\ ~lastOp.raised
    /\ clients[lastOp.sid] = DEFAULT_NAME
    /\ lastOp.name = "A"
    /\ LastStored.username = DEFAULT_NAME
    /\ Cardinality(Deliveries(out, "chat_message")) = 1

\* ---------------------------------------------------------------------- C19
\* C19: the keys of clients are the connections that connected and have not
\* disconnected; typing, send_message and change_username neither add nor
\* remove a key, and typing and send_message change no display name.
C19_RegistryMembership ==
    [][ /\ Registered' = connected'
        /\ lastOp'.op \in {"typing", "send_message", "change_username"} =>
               Registered' = Registered
        /\ lastOp'.op \in {"typing", "send_message"} =>
               clients' = clients ]_vars

\* A connection that disconnected has sent change_username with the name
\* "A" and has no entry; the other connection is registered.
C19_Witness ==
    /\ lastOp.op = "change_username"
    /\ lastOp.sid \in issued \ connected
    /\ lastOp.name = "A"
    /\ clients[lastOp.sid] = MISSING
    /\ Registered = connected
    /\ Registered # {}

\* ---------------------------------------------------------------------- C12
\* The log as get_history reads it.
Log == IF backend = "json" THEN chat_history ELSE col

\* C12: after each clear_history of a run of calls in a row during which the
\* storage did not fail, the log is empty and the call reported success;
\* the second call of two in a row finds nothing to remove and does not
\* report an error for that.
C12_ClearIsIdempotent ==
    (lastOp.op = "clear_history" /\ clearsInRow >= 1 /\ lastOp.io = "ok") =>
        /\ Log = <<>>
        /\ response.status = "success"

\* A message was stored, then clear_history ran twice in a row; the second
\* call reported success on the empty log.
C12_Witness ==
    /\ lastOp.op = "clear_history"
    /\ clearsInRow = 2
    /\ nextId > 1
    /\ clearedAt = nextId
    /\ Log = <<>>
    /\ backend = "json" => file.state = "absent"
    /\ response.status = "success"

\* ---------------------------------------------------------------------- C13
\* The content with the legacy prefix taken off at its start only.
PrefixOnly(t) ==
    IF t # <<>> /\ MatchEnd(t, 1) > 0
    THEN SubSeq(t, MatchEnd(t, 1) + 1, Len(t))
    ELSE t

\* C13 (as claimed): the content a send_message stores is the trimmed
\* content without the legacy prefix that starts it, if there is one, and
\* with every later occurrence of the pattern left in place.
C13_PrefixStrippedOnly ==
    (lastOp.op = "send_message" /\ ~lastOp.raised) =>
        LastStored.content = PrefixOnly(strip(lastOp.raw))

Quiescent == \A h \in Handlers : pc[h] = "idle"

\* C15: file-backed, while the storage does not fail: only the holder of
\* the lock is inside a with block, and once every handler has completed
\* the file holds the list (no file when the list is empty and was just
\* cleared or never written), the list is the ids appended since it was
\* last emptied, in the order of the appends, cut to the last MAX_HISTORY.
C15_SerializedAppendAndClear ==
    backend = "json" =>
        /\ \A h \in Handlers : pc[h] \in Locked => lock = h
        /\ Quiescent =>
              /\ \/ file.state = "valid" /\ file.data = chat_history
                 \/ file.state = "absent" /\ chat_history = <<>>
              /\ Ids(chat_history) = LastN(appended, MAX_HISTORY)
              /\ Len(chat_history) <= MAX_HISTORY

\* Message 1 was appended and cleared away, then the handlers of messages 2
\* and 3 ran at the same time and message 3 was appended first; all are
\* done and the file holds both.
C15_Witness ==
    /\ backend = "json"
    /\ Quiescent
    /\ appended = <<3, 2>>
    /\ clearedAt = 2
    /\ file.state = "valid"
    /\ Ids(file.data) = <<3, 2>>

Emitter == CHOOSE h \in Handlers : pc[h] = "emit" /\ pc'[h] = "idle"

\* The record as get_history prints it.
Printed(rec) ==
    [id |-> rec.id, username |-> rec.username, content |-> rec.content,
     timestamp |-> IF backend = "json" THEN rec.timestamp
                   ELSE rec.timestamp \div TicksPerSecond]

\* C17: chat_message is delivered by the emit step of a handler only, which
\* comes after the handler has stored its message; that step delivers it
\* exactly once to every other connection, with the id, author, content and
\* timestamp of the stored record.
C17_PersistThenBroadcast ==
    [][ /\ Deliveries(out', "chat_message") # {} => lastOp'.op = "emit"
        /\ lastOp'.op = "emit" =>
              LET rec == local[Emitter].stored
              IN  /\ rec # NoMsg
                  /\ \A c \in connected \ {local[Emitter].sid} :
                         Cardinality(DeliveriesTo(out', "chat_message", c)) = 1
                  /\ \A i \in Deliveries(out', "chat_message") :
                         out'[i].msg = Printed(rec) ]_vars

\* A handler of the document store has emitted message 2, which it read the
\* clock for at tick 1, to the other connection.
C17_Witness ==
    /\ backend = "mongo"
    /\ lastOp.op = "emit"
    /\ Cardinality(connected) = 2
    /\ Len(out) = 1
    /\ out[1].msg.id = 2
    /\ \E i \in 1..Len(col) : col[i].id = 2 /\ col[i].timestamp = 1

\* ---------------------------------------------------------------------- C18
\* C18: file-backed, the lock is held by a thread inside a with block or by
\* nobody, so it is free after every append and every clear, failed or not;
\* under fair scheduling every handler that waits for the lock completes.
C18_LockReleasedAndProgress ==
    /\ [](backend = "json" =>
             (lock = 0 \/ (lock \in Handlers /\ pc[lock] \in Locked)))
    /\ \A h \in Handlers : (pc[h] \in Waiting) ~> (pc[h] = "idle")

\* A clear_history whose os.remove failed has returned the error response
\* and the lock is free; the other thread waits for it.
C18_Witness ==
    /\ lastOp.op = "remove"
    /\ lastOp.io = "remove_failed"
    /\ response.status = "error"
    /\ lock = 0
    /\ \E h \in Handlers : pc[h] \in Waiting

====
